---- MODULE Spec2Model ----
(***************************************************************************)
(* TinyWiki: the wiki viewer (WikiRenderer) and the App shell around it.   *)
(*                                                                         *)
(* The viewer's React state (activeSection, collapsedSections, history,    *)
(* historyIndex, ttsState) is the model's state; every event handler is    *)
(* one action (React applies the state updates of one handler as one       *)
(* batch before the next event is handled).  The browser is modelled by    *)
(* the URL fragment (hash), the zero-delay timers the handlers start, and  *)
(* the speech engine window.speechSynthesis: its utterance queue, its      *)
(* paused flag and the utterance events it has fired but not yet           *)
(* delivered.                                                              *)
(*                                                                         *)
(* Strings are sequences of one-character strings.  The literal            *)
(* "#section-" is kept as one token of the fragment.  The texts of the     *)
(* share link (JSON, URI-encoded, base64) are sequences of UTF-16 code     *)
(* units, written as integers.                                             *)
(***************************************************************************)
EXTENDS Integers, Sequences, FiniteSets, TLC

VARIABLES
    appState,           \* App: AppState
    wikiData,           \* App: wikiData, the viewer's `data` prop
    hash,               \* window.location.hash
    timers,             \* pending setTimeout(.., 0) callbacks of goBack/goForward
    activeSection,      \* WikiRenderer state
    collapsedSections,
    history,
    historyIndex,
    ttsState,
    speechSupported,    \* 'speechSynthesis' in window
    synthQueue,         \* window.speechSynthesis: utterances queued or spoken
    synthPaused,        \* window.speechSynthesis.paused
    events,             \* utterance events fired, not yet delivered (FIFO)
    search,             \* window.location.search: the raw value of share=
    clipboard,          \* the URL navigator.clipboard holds
    clipboardApi,       \* navigator.clipboard is defined (secure context)
    download,           \* the file the last export handed to the browser
    lastOp              \* the handler that ran last and the branch it took

vars == <<appState, wikiData, hash, timers, activeSection, collapsedSections,
          history, historyIndex, ttsState, speechSupported, synthQueue,
          synthPaused, events, search, clipboard, clipboardApi, download, lastOp>>

navVars == <<activeSection, collapsedSections, history, historyIndex>>
synthVars == <<synthQueue, synthPaused, events>>
pageVars == <<search, clipboard, clipboardApi, download>>

(***************************************************************************)
(* Bounds of the model.                                                    *)
(***************************************************************************)
MaxHist == 3        \* longest history sequence explored
MaxTimers == 1      \* pending zero-delay timers
MaxEvents == 3      \* utterance events in flight
MaxContent == 5     \* longest content string of the formatter specification

(***************************************************************************)
(* Strings.                                                                *)
(***************************************************************************)
Digits == <<"0", "1", "2", "3", "4", "5", "6", "7", "8", "9">>

IsDigit(c) == \E d \in 1..10 : Digits[d] = c

DigitValue(c) == (CHOOSE d \in 1..10 : Digits[d] = c) - 1

RECURSIVE IntToStr(_)
\* template literal `${index}` for index >= 0
IntToStr(n) == IF n < 10 THEN <<Digits[n + 1]>>
               ELSE IntToStr(n \div 10) \o <<Digits[(n % 10) + 1]>>

\* a JavaScript number: NaN or an integer
NaN == [nan |-> TRUE, value |-> 0]

Num(v) == [nan |-> FALSE, value |-> v]

isNaN(x) == x.nan

RECURSIVE DigitRun(_, _)
\* value of the longest digit prefix of s, acc the value read so far
DigitRun(s, acc) ==
    IF s # <<>> /\ IsDigit(Head(s))
    THEN DigitRun(Tail(s), acc * 10 + DigitValue(Head(s)))
    ELSE acc

RECURSIVE SkipSpace(_)
SkipSpace(s) == IF s # <<>> /\ Head(s) = " " THEN SkipSpace(Tail(s)) ELSE s

\* parseInt(s, 10): leading white space, an optional sign, then digits;
\* NaN when no digit follows.
parseInt(s) ==
    LET t == SkipSpace(s)
        neg == t # <<>> /\ Head(t) = "-"
        u == IF t # <<>> /\ Head(t) \in {"-", "+"} THEN Tail(t) ELSE t
    IN  IF u = <<>> \/ ~IsDigit(Head(u)) THEN NaN
        ELSE IF neg THEN Num(0 - DigitRun(u, 0)) ELSE Num(DigitRun(u, 0))

SectionPrefix == "#section-"

\* `#section-${index}`
SectionHash(index) == <<SectionPrefix>> \o IntToStr(index)

\* no share= parameter (or an empty one: both are falsy)
NoShare == <<>>

\* a URL of the page: origin + pathname + '?share=' + share + hash
Url(share, fragment) == [share |-> share, hash |-> fragment]

NoHash == <<>>

(***************************************************************************)
(* Documents.                                                              *)
(***************************************************************************)
NoData == [title |-> <<>>, sections |-> <<>>]

Doc(n, content) ==
    [title |-> <<"T">>, sections |-> [i \in 1..n |-> [content |-> content]]]

\* documents of the navigation specification: two sizes, plain content
NavDocs == {Doc(2, <<"a">>), Doc(4, <<"a">>)}

NumSections == Len(wikiData.sections)

SectionIds == 0 .. (NumSections - 1)

\* no file has been downloaded
NoFile == [name |-> <<>>, content |-> <<>>]

\* the viewer is rendered: App renders it when VIEWING with a document
Mounted == appState = "VIEWING" /\ wikiData # NoData

(***************************************************************************)
(* Speech state values.                                                    *)
(***************************************************************************)
Stopped == [idx |-> -1, status |-> "stopped"]

Playing(i) == [idx |-> i, status |-> "playing"]

Paused(i) == [idx |-> i, status |-> "paused"]

\* the engine has delivered every event and does what ttsState says: nothing
\* when stopped, the one utterance of section idx spoken or paused otherwise
Settled ==
    /\ events = <<>>
    /\ IF ttsState.status = "stopped"
       THEN ttsState.idx = -1 /\ synthQueue = <<>> /\ ~synthPaused
       ELSE /\ Len(synthQueue) = 1
            /\ synthQueue[1].index = ttsState.idx
            /\ synthQueue[1].started
            /\ synthQueue[1].live
            /\ synthPaused = (ttsState.status = "paused")

\* lastOp: the handler that ran last, its argument (for goBack and goForward,
\* which take none, the section that was active when they were called), the
\* branch it took, and the speech state it found (pre, and whether the
\* engine was settled)
NoOp == [op |-> "none", arg |-> -1, branch |-> "none", pre |-> Stopped, settled |-> TRUE]

Op(name, arg, branch) ==
    [op |-> name, arg |-> arg, branch |-> branch, pre |-> ttsState, settled |-> Settled]

(***************************************************************************)
(* window.speechSynthesis.  The engine is a record                         *)
(* [queue, paused, events]; an utterance is [index, text, started, live],  *)
(* index being the section its callbacks close over and live telling       *)
(* whether the component that owns the callbacks is still mounted.         *)
(***************************************************************************)
Engine == [queue |-> synthQueue, paused |-> synthPaused, events |-> events]

\* an utterance event; stale tells that a later cancel() (a later request, a
\* stop, a document change) has superseded the utterance it belongs to
Event(type, u) == [type |-> type, index |-> u.index, live |-> u.live, stale |-> FALSE]

Superseded(evs) == [k \in 1..Len(evs) |-> [evs[k] EXCEPT !.stale = TRUE]]

\* speak(u): u joins the queue; it starts at once when nothing is ahead of
\* it and the engine is not paused, and the start event is fired
SynthSpeak(e, u) ==
    IF e.queue = <<>> /\ ~e.paused
    THEN [e EXCEPT !.queue = <<[u EXCEPT !.started = TRUE]>>,
                   !.events = Append(e.events, Event("start", u))]
    ELSE [e EXCEPT !.queue = Append(e.queue, u)]

\* cancel(): every utterance leaves the queue and gets an error event
\* (interrupted or canceled).  Engines differ on the paused flag: it is
\* kept (keepPaused) or cleared.
SynthCancel(e, keepPaused) ==
    [queue |-> <<>>,
     paused |-> e.paused /\ keepPaused,
     events |-> Superseded(e.events
                          \o [k \in 1..Len(e.queue) |-> Event("error", e.queue[k])])]

\* pause(): the utterance being spoken gets a pause event
SynthPause(e) ==
    IF e.paused THEN e
    ELSE [e EXCEPT !.paused = TRUE,
                   !.events = IF e.queue # <<>> /\ Head(e.queue).started
                              THEN Append(e.events, Event("pause", Head(e.queue)))
                              ELSE e.events]

\* resume(): the paused utterance gets a resume event; an utterance that
\* waited for the engine starts
SynthResume(e) ==
    IF ~e.paused THEN e
    ELSE IF e.queue = <<>> THEN [e EXCEPT !.paused = FALSE]
    ELSE IF Head(e.queue).started
    THEN [e EXCEPT !.paused = FALSE,
                   !.events = Append(e.events, Event("resume", Head(e.queue)))]
    ELSE [e EXCEPT !.paused = FALSE,
                   !.queue = <<[Head(e.queue) EXCEPT !.started = TRUE]>> \o Tail(e.queue),
                   !.events = Append(e.events, Event("start", Head(e.queue)))]

\* the utterance being spoken ends (type "end") or fails (type "error");
\* the next one in the queue, if any, starts
SynthFinish(e, type) ==
    LET rest == Tail(e.queue)
        done == Append(e.events, Event(type, Head(e.queue)))
    IN  IF rest # <<>> /\ ~e.paused
        THEN [e EXCEPT !.queue = <<[Head(rest) EXCEPT !.started = TRUE]>> \o Tail(rest),
                       !.events = Append(done, Event("start", Head(rest)))]
        ELSE [e EXCEPT !.queue = rest, !.events = done]

\* the owning component has unmounted: its callbacks set state on nothing
Orphan(e) ==
    [e EXCEPT !.queue = [k \in 1..Len(e.queue) |-> [e.queue[k] EXCEPT !.live = FALSE]],
              !.events = [k \in 1..Len(e.events) |-> [e.events[k] EXCEPT !.live = FALSE]]]

SetEngine(e) ==
    /\ Len(e.events) <= MaxEvents
    /\ synthQueue' = e.queue
    /\ synthPaused' = e.paused
    /\ events' = e.events

(***************************************************************************)
(* WikiRenderer: mount and unmount.                                        *)
(***************************************************************************)
\* the deep-link effect without the range check on the parsed index
DeepLinkIndex_NoRangeCheck(h, n) ==
    IF h # <<>> /\ Head(h) = SectionPrefix
    THEN LET index == parseInt(Tail(h))
         IN  IF ~isNaN(index) /\ index.value >= 0
             THEN index.value ELSE -1
    ELSE -1

\* the deep-link effect's test of window.location.hash against a document
\* of n sections: the section index it names, or -1
DeepLinkIndex(h, n) ==
    IF h # <<>> /\ Head(h) = SectionPrefix
    THEN LET index == parseInt(Tail(h))
         IN  IF ~isNaN(index) /\ index.value >= 0 /\ index.value < n
             THEN index.value ELSE -1
    ELSE -1

\* first render without the deep-link effect
MountViewer_NoDeepLink(d) ==
    /\ activeSection' = 0
    /\ collapsedSections' = {}
    /\ history' = <<0>>
    /\ historyIndex' = 0
    /\ ttsState' = Stopped
    /\ IF speechSupported
       THEN \E keep \in BOOLEAN : SetEngine(SynthCancel(Engine, keep))
       ELSE UNCHANGED synthVars

\* first render of a viewer on document d: the useState initial values,
\* then the reset effect, then the deep-link effect
MountViewer(d) ==
    LET index == DeepLinkIndex(hash, Len(d.sections))
        start == IF index >= 0 THEN index ELSE 0
    IN  /\ activeSection' = start
        /\ collapsedSections' = {}
        /\ history' = <<start>>
        /\ historyIndex' = 0
        /\ ttsState' = Stopped
        /\ IF speechSupported
           THEN \E keep \in BOOLEAN : SetEngine(SynthCancel(Engine, keep))
           ELSE UNCHANGED synthVars

\* unmount without the cleanup effect: speech is not cancelled
UnmountViewer_NoCancel ==
    /\ activeSection' = 0
    /\ collapsedSections' = {}
    /\ history' = <<0>>
    /\ historyIndex' = 0
    /\ ttsState' = Stopped
    /\ SetEngine(Orphan(Engine))

\* the viewer leaves the page: its state is gone, its cleanup effect
\* cancels speech, and its utterance callbacks are orphaned
UnmountViewer ==
    /\ activeSection' = 0
    /\ collapsedSections' = {}
    /\ history' = <<0>>
    /\ historyIndex' = 0
    /\ ttsState' = Stopped
    /\ IF speechSupported
       THEN \E keep \in BOOLEAN : SetEngine(Orphan(SynthCancel(Engine, keep)))
       ELSE UNCHANGED synthVars

(***************************************************************************)
(* App.                                                                    *)
(***************************************************************************)
handleFilesSelected ==
    /\ appState = "IDLE"
    /\ appState' = "PROCESSING"
    /\ lastOp' = Op("handleFilesSelected", -1, "none")
    /\ UNCHANGED <<wikiData, hash, timers, navVars, ttsState, speechSupported, pageVars, synthVars>>

handleTopicSelected ==
    /\ Mounted
    /\ appState' = "PROCESSING"
    /\ UnmountViewer
    /\ lastOp' = Op("handleTopicSelected", -1, "none")
    /\ UNCHANGED <<wikiData, hash, timers, speechSupported, pageVars>>

\* the generation call resolves with document d
GenerateResolved(d) ==
    /\ appState = "PROCESSING"
    /\ wikiData' = d
    /\ appState' = "VIEWING"
    /\ MountViewer(d)
    /\ lastOp' = Op("mount", DeepLinkIndex(hash, Len(d.sections)), "none")
    /\ UNCHANGED <<hash, timers, speechSupported, pageVars>>

\* the generation call rejects
GenerateRejected ==
    /\ appState = "PROCESSING"
    /\ appState' = "ERROR"
    /\ lastOp' = Op("error", -1, "none")
    /\ UNCHANGED <<wikiData, hash, timers, navVars, ttsState, speechSupported, pageVars, synthVars>>

resetApp ==
    /\ appState \in {"VIEWING", "ERROR"}
    /\ hash' = NoHash
    /\ wikiData' = NoData
    /\ appState' = "IDLE"
    /\ IF Mounted THEN UnmountViewer ELSE UNCHANGED <<navVars, ttsState, synthVars>>
    /\ lastOp' = Op("resetApp", -1, "none")
    /\ search' = NoShare
    /\ UNCHANGED <<timers, speechSupported, clipboard, clipboardApi, download>>

(***************************************************************************)
(* WikiRenderer: navigation.                                               *)
(***************************************************************************)
\* history[historyIndex], the entry at the cursor (history is 0-based there)
AtCursor == history[historyIndex + 1]

\* updateHistory without the slice: the forward entries are kept
updateHistory_NoTruncate(index) ==
    IF AtCursor = index THEN <<history, historyIndex>>
    ELSE <<Append(history, index), Len(history)>>

\* updateHistory without the early return on the current section
updateHistory_NoSameCheck(index) ==
    LET newHistory == Append(SubSeq(history, 1, historyIndex + 1), index)
    IN  <<newHistory, Len(newHistory) - 1>>

\* updateHistory setting the cursor to newHistory.length
updateHistory_OffByOne(index) ==
    IF AtCursor = index THEN <<history, historyIndex>>
    ELSE LET newHistory == Append(SubSeq(history, 1, historyIndex + 1), index)
         IN  <<newHistory, Len(newHistory)>>

\* updateHistory comparing with the last entry instead of the one at the cursor
updateHistory_CompareLast(index) ==
    IF history[Len(history)] = index THEN <<history, historyIndex>>
    ELSE LET newHistory == Append(SubSeq(history, 1, historyIndex + 1), index)
         IN  <<newHistory, Len(newHistory) - 1>>

\* updateHistory(index): the new <<history, historyIndex>>
updateHistory(index) ==
    IF AtCursor = index THEN <<history, historyIndex>>
    ELSE LET newHistory == Append(SubSeq(history, 1, historyIndex + 1), index)
         IN  <<newHistory, Len(newHistory) - 1>>

\* which branch updateHistory(index) takes
HistoryBranch(index) ==
    IF AtCursor = index THEN "same"
    ELSE IF historyIndex + 1 < Len(history) THEN "truncate" ELSE "append"

\* handleScrollToSection without the expansion of the section
ScrollToSection_KeepCollapsed(index) ==
    /\ collapsedSections' = collapsedSections
    /\ history' = updateHistory(index)[1]
    /\ historyIndex' = updateHistory(index)[2]
    /\ Len(history') <= MaxHist
    /\ activeSection' = index
    /\ hash' = SectionHash(index)

\* the state updates of handleScrollToSection(index)
ScrollToSection(index) ==
    /\ collapsedSections' = collapsedSections \ {index}
    /\ history' = updateHistory(index)[1]
    /\ historyIndex' = updateHistory(index)[2]
    /\ Len(history') <= MaxHist
    /\ activeSection' = index
    /\ hash' = SectionHash(index)

handleScrollToSection(index) ==
    /\ Mounted
    /\ index \in SectionIds
    /\ ScrollToSection(index)
    /\ lastOp' = Op("selectSection", index, HistoryBranch(index))
    /\ UNCHANGED <<appState, wikiData, timers, ttsState, speechSupported, pageVars, synthVars>>

\* toggleSection that makes the section it collapses the active one
toggleSection_CollapseActivates(index) ==
    /\ Mounted
    /\ index \in SectionIds
    /\ IF index \in collapsedSections
       THEN IF activeSection # index
            THEN /\ ScrollToSection(index)
                 /\ lastOp' = Op("toggleSection", index, "expand-navigate")
            ELSE /\ collapsedSections' = collapsedSections \ {index}
                 /\ lastOp' = Op("toggleSection", index, "expand")
                 /\ UNCHANGED <<activeSection, history, historyIndex, hash>>
       ELSE /\ collapsedSections' = collapsedSections \cup {index}
            /\ activeSection' = index
            /\ lastOp' = Op("toggleSection", index, "collapse")
            /\ UNCHANGED <<history, historyIndex, hash>>
    /\ UNCHANGED <<appState, wikiData, timers, ttsState, speechSupported, pageVars, synthVars>>

toggleSection(index) ==
    /\ Mounted
    /\ index \in SectionIds
    /\ IF index \in collapsedSections
       THEN IF activeSection # index
            THEN /\ ScrollToSection(index)
                 /\ lastOp' = Op("toggleSection", index, "expand-navigate")
            ELSE /\ collapsedSections' = collapsedSections \ {index}
                 /\ lastOp' = Op("toggleSection", index, "expand")
                 /\ UNCHANGED <<activeSection, history, historyIndex, hash>>
       ELSE /\ collapsedSections' = collapsedSections \cup {index}
            /\ lastOp' = Op("toggleSection", index, "collapse")
            /\ UNCHANGED <<activeSection, history, historyIndex, hash>>
    /\ UNCHANGED <<appState, wikiData, timers, ttsState, speechSupported, pageVars, synthVars>>

\* the cursor moves but the active section is read at the old cursor
MoveCursor_StaleActive(newIndex) ==
    LET sectionIdx == history[historyIndex + 1]
    IN  /\ historyIndex' = newIndex
        /\ activeSection' = sectionIdx
        /\ collapsedSections' = collapsedSections \ {sectionIdx}
        /\ Len(timers) < MaxTimers
        /\ timers' = Append(timers, sectionIdx)
        /\ UNCHANGED history

\* the cursor moves to newIndex (handleHistoryBack / handleHistoryForward)
MoveCursor(newIndex) ==
    LET sectionIdx == history[newIndex + 1]
    IN  /\ historyIndex' = newIndex
        /\ activeSection' = sectionIdx
        /\ collapsedSections' = collapsedSections \ {sectionIdx}
        /\ Len(timers) < MaxTimers
        /\ timers' = Append(timers, sectionIdx)
        /\ UNCHANGED history

\* handleHistoryBack that wraps to the last entry at the start of the history
handleHistoryBack_Wrap ==
    /\ Mounted
    /\ MoveCursor(IF historyIndex > 0 THEN historyIndex - 1 ELSE Len(history) - 1)
    /\ lastOp' = Op("goBack", activeSection, IF historyIndex > 0 THEN "move" ELSE "boundary")
    /\ UNCHANGED <<appState, wikiData, hash, ttsState, speechSupported, pageVars, synthVars>>

handleHistoryBack ==
    /\ Mounted
    /\ IF historyIndex > 0
       THEN /\ MoveCursor(historyIndex - 1)
            /\ lastOp' = Op("goBack", activeSection, "move")
       ELSE /\ lastOp' = Op("goBack", activeSection, "boundary")
            /\ UNCHANGED <<navVars, timers>>
    /\ UNCHANGED <<appState, wikiData, hash, ttsState, speechSupported, pageVars, synthVars>>

handleHistoryForward ==
    /\ Mounted
    /\ IF historyIndex < Len(history) - 1
       THEN /\ MoveCursor(historyIndex + 1)
            /\ lastOp' = Op("goForward", activeSection, "move")
       ELSE /\ lastOp' = Op("goForward", activeSection, "boundary")
            /\ UNCHANGED <<navVars, timers>>
    /\ UNCHANGED <<appState, wikiData, hash, ttsState, speechSupported, pageVars, synthVars>>

\* a zero-delay timer of goBack/goForward fires: when the section's element
\* is in the page it is scrolled to and the fragment is replaced
TimerFires ==
    /\ timers # <<>>
    /\ timers' = Tail(timers)
    /\ hash' = IF Mounted /\ Head(timers) \in SectionIds
               THEN SectionHash(Head(timers)) ELSE hash
    /\ UNCHANGED <<appState, wikiData, navVars, ttsState, speechSupported, pageVars, synthVars, lastOp>>

(***************************************************************************)
(* WikiRenderer: read aloud.                                               *)
(***************************************************************************)
RECURSIVE StripStars_OnlyFirst(_)
\* replace without the g flag: only the first doubled delimiter goes
StripStars_OnlyFirst(text) ==
    IF Len(text) < 2 THEN text
    ELSE IF text[1] = "*" /\ text[2] = "*" THEN Tail(Tail(text))
    ELSE <<Head(text)>> \o StripStars_OnlyFirst(Tail(text))

RECURSIVE StripStars(_)
\* text.replace(/\*\*/g, '').replace(/\*/g, ''): every asterisk goes
StripStars(text) ==
    IF text = <<>> THEN <<>>
    ELSE IF Head(text) = "*" THEN StripStars(Tail(text))
    ELSE <<Head(text)>> \o StripStars(Tail(text))

\* new SpeechSynthesisUtterance(cleanText) with the callbacks of section index
Utterance(index, text) ==
    [index |-> index, text |-> StripStars(text), started |-> FALSE, live |-> TRUE]

\* handleTTS without the capability check
TTSBranch_NoSupportCheck(index) ==
    IF ttsState.idx = index
    THEN IF ttsState.status = "playing" THEN "pause"
         ELSE IF ttsState.status = "paused" THEN "resume" ELSE "ignore"
    ELSE "speak"

\* handleTTS without the resume branch: a paused section is ignored
TTSBranch_NoResume(index) ==
    IF ~speechSupported THEN "unsupported"
    ELSE IF ttsState.idx = index
    THEN IF ttsState.status = "playing" THEN "pause" ELSE "ignore"
    ELSE "speak"

\* which branch handleTTS(index) takes
TTSBranch(index) ==
    IF ~speechSupported THEN "unsupported"
    ELSE IF ttsState.idx = index
    THEN IF ttsState.status = "playing" THEN "pause"
         ELSE IF ttsState.status = "paused" THEN "resume" ELSE "ignore"
    ELSE "speak"

\* handleTTS without synth.cancel() before synth.speak(u)
CancelAndSpeak_NoCancel(e, index, text, keep) ==
    SynthSpeak(e, Utterance(index, text))

\* the engine after handleTTS(index, text) has spoken a new utterance
CancelAndSpeak(e, index, text, keep) ==
    SynthSpeak(SynthCancel(e, keep), Utterance(index, text))

handleTTS(index) ==
    /\ Mounted
    /\ index \in SectionIds
    /\ LET text == wikiData.sections[index + 1].content
           branch == TTSBranch(index)
       IN  /\ lastOp' = Op("handleTTS", index, branch)
           /\ IF branch = "pause"
              THEN /\ SetEngine(SynthPause(Engine))
                   /\ ttsState' = [ttsState EXCEPT !.status = "paused"]
              ELSE IF branch = "resume"
              THEN /\ SetEngine(SynthResume(Engine))
                   /\ ttsState' = [ttsState EXCEPT !.status = "playing"]
              ELSE IF branch = "speak"
              THEN /\ \E keep \in BOOLEAN :
                        SetEngine(CancelAndSpeak(Engine, index, text, keep))
                   /\ UNCHANGED ttsState
              ELSE UNCHANGED <<ttsState, synthVars>>
    /\ UNCHANGED <<appState, wikiData, hash, timers, navVars, speechSupported, pageVars>>

\* stopTTS that only resets the state and leaves the engine speaking
stopTTS_NoCancel ==
    /\ Mounted
    /\ ttsState.idx \in SectionIds
    /\ ttsState' = Stopped
    /\ lastOp' = Op("stopTTS", -1, "none")
    /\ UNCHANGED <<appState, wikiData, hash, timers, navVars, speechSupported, pageVars, synthVars>>

\* the Stop button is rendered only in the section ttsState.idx names
stopTTS ==
    /\ Mounted
    /\ ttsState.idx \in SectionIds
    /\ IF speechSupported
       THEN \E keep \in BOOLEAN : SetEngine(SynthCancel(Engine, keep))
       ELSE UNCHANGED synthVars
    /\ ttsState' = Stopped
    /\ lastOp' = Op("stopTTS", -1, "none")
    /\ UNCHANGED <<appState, wikiData, hash, timers, navVars, speechSupported, pageVars>>

\* onstart written like onresume: the active index is not set
Callback_StartKeepsIdx(type, index, prev) ==
    IF type \in {"end", "error"} THEN Stopped
    ELSE IF type = "pause" THEN [prev EXCEPT !.status = "paused"]
    ELSE [prev EXCEPT !.status = "playing"]

\* onend / onerror that only set the status and keep the active index
Callback_EndKeepsIdx(type, index, prev) ==
    IF type \in {"end", "error"} THEN [prev EXCEPT !.status = "stopped"]
    ELSE IF type = "pause" THEN [prev EXCEPT !.status = "paused"]
    ELSE IF type = "resume" THEN [prev EXCEPT !.status = "playing"]
    ELSE Playing(index)

\* the callbacks handleTTS(index, ..) puts on its utterance
Callback(type, index, prev) ==
    IF type \in {"end", "error"} THEN Stopped
    ELSE IF type = "pause" THEN [prev EXCEPT !.status = "paused"]
    ELSE IF type = "resume" THEN [prev EXCEPT !.status = "playing"]
    ELSE Playing(index)

\* the browser delivers the oldest pending utterance event
DeliverEvent ==
    /\ events # <<>>
    /\ events' = Tail(events)
    /\ ttsState' = IF Head(events).live /\ Mounted
                   THEN Callback(Head(events).type, Head(events).index, ttsState)
                   ELSE ttsState
    /\ UNCHANGED <<appState, wikiData, hash, timers, navVars, speechSupported, pageVars,
                   synthQueue, synthPaused, lastOp>>

\* the engine reaches the end of the utterance it is speaking
UtteranceEnds ==
    /\ synthQueue # <<>>
    /\ Head(synthQueue).started
    /\ ~synthPaused
    /\ SetEngine(SynthFinish(Engine, "end"))
    /\ UNCHANGED <<appState, wikiData, hash, timers, navVars, ttsState, speechSupported, pageVars, lastOp>>

\* synthesis of the utterance being spoken fails
UtteranceFails ==
    /\ synthQueue # <<>>
    /\ Head(synthQueue).started
    /\ SetEngine(SynthFinish(Engine, "error"))
    /\ UNCHANGED <<appState, wikiData, hash, timers, navVars, ttsState, speechSupported, pageVars, lastOp>>

(***************************************************************************)
(* components/WikiRenderer.tsx: read aloud.  This viewer's handleTTS calls *)
(* pause() and resume() without recording them, and its utterances have    *)
(* the callbacks onend and onstart only.                                   *)
(***************************************************************************)
\* u.onend and u.onstart; the utterance has no other callback
ComponentCallback(type, index, prev) ==
    IF type = "end" THEN Stopped
    ELSE IF type = "start" THEN Playing(index)
    ELSE prev

\* handleTTS(index, text) of components/WikiRenderer.tsx
ComponentHandleTTS(index) ==
    /\ Mounted
    /\ index \in SectionIds
    /\ LET text == wikiData.sections[index + 1].content
           branch == TTSBranch(index)
       IN  /\ lastOp' = Op("handleTTS", index, branch)
           /\ IF branch = "pause" THEN SetEngine(SynthPause(Engine))
              ELSE IF branch = "resume" THEN SetEngine(SynthResume(Engine))
              ELSE IF branch = "speak"
              THEN \E keep \in BOOLEAN :
                       SetEngine(CancelAndSpeak(Engine, index, text, keep))
              ELSE UNCHANGED synthVars
    /\ UNCHANGED <<appState, wikiData, hash, timers, navVars, ttsState, speechSupported,
                   pageVars>>

\* the browser delivers the oldest pending event of an utterance of this
\* viewer
ComponentDeliverEvent ==
    /\ events # <<>>
    /\ events' = Tail(events)
    /\ ttsState' = IF Head(events).live /\ Mounted
                   THEN ComponentCallback(Head(events).type, Head(events).index, ttsState)
                   ELSE ttsState
    /\ UNCHANGED <<appState, wikiData, hash, timers, navVars, speechSupported, pageVars,
                   synthQueue, synthPaused, lastOp>>

(***************************************************************************)
(* Share link: the texts handleCopyLink builds and the App's mount effect  *)
(* reads back.                                                             *)
(***************************************************************************)
\* the printable ASCII characters, code units 32..126 ("U+005C" and "U+0060"
\* stand for the backslash and the backquote)
Ascii ==
    <<" ", "!", "\"", "#", "$", "%", "&", "'", "(", ")", "*", "+",
      ",", "-", ".", "/", "0", "1", "2", "3", "4", "5", "6", "7",
      "8", "9", ":", ";", "<", "=", ">", "?", "@", "A", "B", "C",
      "D", "E", "F", "G", "H", "I", "J", "K", "L", "M", "N", "O",
      "P", "Q", "R", "S", "T", "U", "V", "W", "X", "Y", "Z", "[",
      "U+005C", "]", "^", "_", "U+0060", "a", "b", "c", "d", "e", "f", "g",
      "h", "i", "j", "k", "l", "m", "n", "o", "p", "q", "r", "s",
      "t", "u", "v", "w", "x", "y", "z", "{", "|", "}", "~">>

\* the UTF-16 code unit of a character; "U+00E9" stands for e-acute
CodeUnit(c) ==
    IF c = "U+00E9" THEN 233
    ELSE 31 + CHOOSE i \in 1..Len(Ascii) : Ascii[i] = c

Str(s) == [k \in 1..Len(s) |-> CodeUnit(s[k])]

\* the outcome of a call: a value, or an exception thrown
Ok(v) == [ok |-> TRUE, value |-> v]
Thrown == [ok |-> FALSE, value |-> <<>>]

RECURSIVE Flatten(_, _, _)
\* pieces[lo] \o .. \o pieces[hi]
Flatten(pieces, lo, hi) ==
    IF lo > hi THEN <<>>
    ELSE IF lo = hi THEN pieces[lo]
    ELSE LET mid == (lo + hi) \div 2
         IN  Flatten(pieces, lo, mid) \o Flatten(pieces, mid + 1, hi)

\* the one element of a singleton set; Only({F(v) : v \in {e}}) is F(e)
\* with e evaluated once
Only(S) == CHOOSE x \in S : TRUE

Concat(pieces) == Only({Flatten(p, 1, Len(p)) : p \in {pieces}})

\* JSON values of the model: null, or an object that may hold title and
\* sections
JsonNull ==
    [null |-> TRUE, hasTitle |-> FALSE, title |-> <<>>,
     hasSections |-> FALSE, sections |-> <<>>]

JsonObject(hasTitle, title, hasSections, sections) ==
    [null |-> FALSE, hasTitle |-> hasTitle, title |-> title,
     hasSections |-> hasSections, sections |-> sections]

DocJson(d) == JsonObject(TRUE, d.title, TRUE, d.sections)

\* the escapes of a JSON string: the quote and the backslash (the texts of
\* the model hold no control character and no lone surrogate)
JsonEscape(s) ==
    Concat([k \in 1..Len(s) |-> IF s[k] \in {34, 92} THEN <<92, s[k]>> ELSE <<s[k]>>])

Quote(text) == <<34>> \o JsonEscape(Str(text)) \o <<34>>

SectionJson(sec) ==
    Str(<<"{", "\"", "c", "o", "n", "t", "e", "n", "t", "\"", ":">>)
    \o Quote(sec.content) \o Str(<<"}">>)

RECURSIVE SectionsJson(_)
SectionsJson(secs) ==
    IF secs = <<>> THEN <<>>
    ELSE IF Len(secs) = 1 THEN SectionJson(secs[1])
    ELSE SectionJson(secs[1]) \o Str(<<",">>) \o SectionsJson(Tail(secs))

\* JSON.stringify(v): the properties in insertion order, no white space
JSONstringify(v) ==
    IF v.null THEN Str(<<"n", "u", "l", "l">>)
    ELSE LET t == IF v.hasTitle
                  THEN Str(<<"\"", "t", "i", "t", "l", "e", "\"", ":">>) \o Quote(v.title)
                  ELSE <<>>
             c == IF v.hasTitle /\ v.hasSections THEN Str(<<",">>) ELSE <<>>
             x == IF v.hasSections
                  THEN Str(<<"\"", "s", "e", "c", "t", "i", "o", "n", "s", "\"", ":", "[">>)
                       \o SectionsJson(v.sections) \o Str(<<"]">>)
                  ELSE <<>>
         IN  Str(<<"{">>) \o t \o c \o x \o Str(<<"}">>)

\* A-Z a-z 0-9 - _ . ! ~ * ' ( )
Unreserved(u) ==
    u \in (65..90) \cup (97..122) \cup (48..57) \cup {45, 95, 46, 33, 126, 42, 39, 40, 41}

IsSurrogate(u) == u \in 55296..57343

HexDigit(n) == IF n < 10 THEN 48 + n ELSE 55 + n

HexValue(c) ==
    IF c \in 48..57 THEN c - 48
    ELSE IF c \in 65..70 THEN c - 55
    ELSE IF c \in 97..102 THEN c - 87
    ELSE -1

Pct(b) == <<37, HexDigit(b \div 16), HexDigit(b % 16)>>

\* the UTF-8 bytes of a code unit outside the surrogate range
Utf8(u) ==
    IF u < 128 THEN <<u>>
    ELSE IF u < 2048 THEN <<192 + (u \div 64), 128 + (u % 64)>>
    ELSE <<224 + (u \div 4096), 128 + ((u \div 64) % 64), 128 + (u % 64)>>

PctBytes(bytes) == Concat([k \in 1..Len(bytes) |-> Pct(bytes[k])])

PctEncode(s) ==
    Concat([k \in 1..Len(s) |->
               IF Unreserved(s[k]) THEN <<s[k]>> ELSE PctBytes(Utf8(s[k]))])

\* encodeURIComponent(s): URIError on a lone surrogate (the texts of the
\* model hold no surrogate pair)
encodeURIComponent(s) ==
    Only({IF \E k \in 1..Len(v) : IsSurrogate(v[k]) THEN Thrown ELSE Ok(PctEncode(v)) :
             v \in {s}})

\* the base64 alphabet A-Z a-z 0-9 + /
B64Char(n) ==
    IF n < 26 THEN 65 + n
    ELSE IF n < 52 THEN 71 + n
    ELSE IF n < 62 THEN n - 4
    ELSE IF n = 62 THEN 43 ELSE 47

B64Value(c) ==
    IF c \in 65..90 THEN c - 65
    ELSE IF c \in 97..122 THEN c - 71
    ELSE IF c \in 48..57 THEN c + 4
    ELSE IF c = 43 THEN 62
    ELSE IF c = 47 THEN 63
    ELSE -1

\* the four base64 characters of the bytes s[i], s[i+1], s[i+2], with =
\* for the bytes past the end
B64Group(s, i) ==
    LET n  == Len(s) - i + 1
        b1 == s[i]
        b2 == IF n >= 2 THEN s[i + 1] ELSE 0
        b3 == IF n >= 3 THEN s[i + 2] ELSE 0
    IN  <<B64Char(b1 \div 4),
          B64Char((b1 % 4) * 16 + (b2 \div 16)),
          IF n >= 2 THEN B64Char((b2 % 16) * 4 + (b3 \div 64)) ELSE 61,
          IF n >= 3 THEN B64Char(b3 % 64) ELSE 61>>

B64Encode(s) ==
    Concat([g \in 1..((Len(s) + 2) \div 3) |-> B64Group(s, 3 * g - 2)])

\* btoa(s): InvalidCharacterError on a code unit above 255
btoa(s) ==
    Only({IF \E k \in 1..Len(v) : v[k] > 255 THEN Thrown ELSE Ok(B64Encode(v)) :
             v \in {s}})

\* the bytes of the base64 characters s[i..i+3]; the bits of a short last
\* group that do not fill a byte are dropped
B64Bytes(s, i) ==
    LET n  == Len(s) - i + 1
        v1 == B64Value(s[i])
        v2 == IF n >= 2 THEN B64Value(s[i + 1]) ELSE 0
        v3 == IF n >= 3 THEN B64Value(s[i + 2]) ELSE 0
        v4 == IF n >= 4 THEN B64Value(s[i + 3]) ELSE 0
    IN  (IF n >= 2 THEN <<v1 * 4 + (v2 \div 16)>> ELSE <<>>)
        \o (IF n >= 3 THEN <<(v2 % 16) * 16 + (v3 \div 4)>> ELSE <<>>)
        \o (IF n >= 4 THEN <<(v3 % 4) * 64 + v4>> ELSE <<>>)

B64Decode(s) ==
    Concat([g \in 1..((Len(s) + 3) \div 4) |-> B64Bytes(s, 4 * g - 3)])

NotAsciiSpace(c) == c \notin {9, 10, 12, 13, 32}

\* one or two = at the end of a text whose length is a multiple of 4 go
Unpad(s) ==
    IF Len(s) % 4 # 0 \/ s = <<>> THEN s
    ELSE IF s[Len(s)] # 61 THEN s
    ELSE IF s[Len(s) - 1] = 61 THEN SubSeq(s, 1, Len(s) - 2)
    ELSE SubSeq(s, 1, Len(s) - 1)

\* atob(s), the forgiving base64 decode: ASCII white space is dropped;
\* InvalidCharacterError on a length of 4k+1 or a character outside the
\* alphabet
atob(s) ==
    Only({IF Len(data) % 4 = 1 \/ \E k \in 1..Len(data) : B64Value(data[k]) < 0
          THEN Thrown
          ELSE Ok(B64Decode(data)) :
             data \in {Unpad(SelectSeq(s, NotAsciiSpace))}})

\* the byte of the escape %XX at s[i], -1 when there is none
PctByte(s, i) ==
    IF i + 2 <= Len(s) /\ s[i] = 37 /\ HexValue(s[i + 1]) >= 0 /\ HexValue(s[i + 2]) >= 0
    THEN 16 * HexValue(s[i + 1]) + HexValue(s[i + 2])
    ELSE -1

\* s[i] is one of the two hex digits of an escape
InEscape(s, i) ==
    \/ i > 1 /\ PctByte(s, i - 1) >= 0
    \/ i > 2 /\ PctByte(s, i - 2) >= 0

\* URLSearchParams.get: + is a space and %XX a byte; every byte above 127
\* is written U+FFFD (none of them is a base64 character)
FormDecode(s) ==
    Only({Concat([i \in 1..Len(v) |->
                     IF InEscape(v, i) THEN <<>>
                     ELSE IF v[i] = 43 THEN <<32>>
                     ELSE IF PctByte(v, i) >= 128 THEN <<65533>>
                     ELSE IF PctByte(v, i) >= 0 THEN <<PctByte(v, i)>>
                     ELSE <<v[i]>>]) :
             v \in {s}})

\* the six bits of the UTF-8 continuation escape at s[i], -1 when none
Continuation(s, i) ==
    LET b == PctByte(s, i) IN IF b \in 128..191 THEN b - 128 ELSE -1

\* the number of escapes of the UTF-8 sequence that the escape at s[i]
\* leads, 0 when it leads none
Utf8Length(s, i) ==
    LET b == PctByte(s, i)
    IN  IF b \in 0..127 THEN 1
        ELSE IF b \in 194..223 THEN 2
        ELSE IF b \in 224..239 THEN 3
        ELSE IF b \in 240..244 THEN 4 ELSE 0

\* the code units of the UTF-8 sequence led by the escape at s[i], <<>>
\* when the escapes are not the encoding of a code point
Utf8Decode(s, i) ==
    LET b  == PctByte(s, i)
        c1 == Continuation(s, i + 3)
        c2 == Continuation(s, i + 6)
        c3 == Continuation(s, i + 9)
        p2 == (b - 192) * 64 + c1
        p3 == (b - 224) * 4096 + c1 * 64 + c2
        p4 == (b - 240) * 262144 + c1 * 4096 + c2 * 64 + c3
    IN  IF Utf8Length(s, i) = 1 THEN <<b>>
        ELSE IF Utf8Length(s, i) = 2
        THEN IF c1 < 0 THEN <<>> ELSE <<p2>>
        ELSE IF Utf8Length(s, i) = 3
        THEN IF c1 < 0 \/ c2 < 0 \/ p3 < 2048 \/ IsSurrogate(p3) THEN <<>> ELSE <<p3>>
        ELSE IF Utf8Length(s, i) = 4
        THEN IF c1 < 0 \/ c2 < 0 \/ c3 < 0 \/ p4 < 65536 \/ p4 > 1114111 THEN <<>>
             ELSE <<55296 + ((p4 - 65536) \div 1024), 56320 + ((p4 - 65536) % 1024)>>
        ELSE <<>>

\* the escape at s[i] is a continuation of the sequence an earlier escape
\* leads
Continues(s, i) ==
    /\ Continuation(s, i) >= 0
    /\ \E m \in 1..3 : i - 3 * m >= 1 /\ Utf8Length(s, i - 3 * m) > m

\* decodeURIComponent(s): URIError on a malformed escape or on escapes that
\* are not the UTF-8 encoding of a code point
decodeURIComponent(s) ==
    LET piece(v, i) == IF InEscape(v, i) \/ Continues(v, i) THEN <<>>
                       ELSE IF v[i] # 37 THEN <<v[i]>>
                       ELSE Utf8Decode(v, i)
        bad(v, i)   == /\ v[i] = 37
                       /\ ~InEscape(v, i)
                       /\ ~Continues(v, i)
                       /\ Utf8Decode(v, i) = <<>>
    IN  Only({IF \E i \in 1..Len(v) : bad(v, i) THEN Thrown
              ELSE Ok(Concat([i \in 1..Len(v) |-> piece(v, i)])) :
                 v \in {s}})

\* the documents of the share-link specification
ShareDocs ==
    {Doc(2, <<"a">>),
     [title |-> <<"~">>, sections |-> <<[content |-> <<"a">>]>>],
     [title |-> <<"T", "~">>, sections |-> <<[content |-> <<"U+00E9", "\"">>]>>]}

\* the JSON values whose text JSON.parse of the model recognises: the
\* documents, null, {} and the objects with one of the two fields
JsonValues ==
    {DocJson(d) : d \in ShareDocs}
    \cup {JsonNull,
          JsonObject(FALSE, <<>>, FALSE, <<>>),
          JsonObject(TRUE, <<"T">>, FALSE, <<>>),
          JsonObject(FALSE, <<>>, TRUE, <<[content |-> <<"a">>]>>)}

\* JSON.parse(text): SyntaxError on any other text
JSONparse(text) ==
    Only({IF \E v \in JsonValues : JSONstringify(v) = t
          THEN Ok(CHOOSE v \in JsonValues : JSONstringify(v) = t)
          ELSE Thrown :
             t \in {text}})

\* btoa(encodeURIComponent(text))
Encode(text) ==
    Only({IF uri.ok THEN btoa(uri.value) ELSE Thrown : uri \in {encodeURIComponent(text)}})

\* handleCopyLink: btoa(encodeURIComponent(JSON.stringify(data)))
EncodeShare(d) == Encode(JSONstringify(DocJson(d)))

\* the App's mount effect accepting every object JSON.parse returns
DecodeShare_NoShapeCheck(shareData) ==
    LET jsonStr(bin) == IF bin.ok THEN decodeURIComponent(bin.value) ELSE Thrown
        data(str)    == IF str.ok THEN JSONparse(str.value) ELSE Thrown
    IN  Only({IF d.ok
              THEN Ok([title |-> d.value.title, sections |-> d.value.sections])
              ELSE Thrown :
                 d \in {data(str) : str \in {jsonStr(bin) : bin \in {atob(shareData)}}}})

\* the App's mount effect on shareData = params.get('share'): the document
\* it accepts, or the exception its catch block receives
DecodeShare(shareData) ==
    LET jsonStr(bin) == IF bin.ok THEN decodeURIComponent(bin.value) ELSE Thrown
        data(str)    == IF str.ok THEN JSONparse(str.value) ELSE Thrown
    IN  Only({IF /\ d.ok
                 /\ ~d.value.null
                 /\ d.value.hasTitle /\ d.value.title # <<>>
                 /\ d.value.hasSections
              THEN Ok([title |-> d.value.title, sections |-> d.value.sections])
              ELSE Thrown :
                 d \in {data(str) : str \in {jsonStr(bin) : bin \in {atob(shareData)}}}})

\* the share values a page is opened with: the encodings of the JSON values,
\* and texts that are not base64, not URI-encoded or not JSON
ShareInputs ==
    {Encode(JSONstringify(v)).value : v \in JsonValues}
    \cup {Str(<<"n", "o", "t", "-", "v", "a", "l", "i", "d", "-",
                "b", "a", "s", "e", "6", "4", "!", "!">>),
          Str(<<"a", "b", "c", "d", "e">>),
          btoa(Str(<<"%">>)).value,
          Encode(Str(<<"{">>)).value}

\* params.get('share') and the outcome of the mount effect for each share
\* value of the model, computed once
LoadedInputs == [share \in ShareInputs |-> DecodeShare(FormDecode(share))]

\* the outcome of the App's mount effect on a page whose share= value is
\* share
LoadShared(share) ==
    IF share \in DOMAIN LoadedInputs THEN LoadedInputs[share]
    ELSE DecodeShare(FormDecode(share))

\* the share value of each document of the model, computed once
EncodedDocs == [d \in ShareDocs |-> EncodeShare(d)]

\* a page load of url: the App and, for a share value it accepts, the viewer
\* are constructed and their mount effects run
OpenUrl(url) ==
    \E shareData \in {FormDecode(url.share)}, loaded \in {LoadShared(url.share)} :
    LET index     == IF loaded.ok
                     THEN DeepLinkIndex(url.hash, Len(loaded.value.sections))
                     ELSE -1
        start     == IF index >= 0 THEN index ELSE 0
    IN  /\ search' = url.share
        /\ hash' = url.hash
        /\ appState' = IF shareData = <<>> THEN "IDLE"
                       ELSE IF loaded.ok THEN "VIEWING" ELSE "ERROR"
        /\ wikiData' = IF shareData # <<>> /\ loaded.ok THEN loaded.value ELSE NoData
        /\ activeSection' = start
        /\ collapsedSections' = {}
        /\ history' = <<start>>
        /\ historyIndex' = 0
        /\ ttsState' = Stopped
        /\ timers' = <<>>
        /\ synthQueue' = <<>>
        /\ synthPaused' = FALSE
        /\ events' = <<>>
        /\ lastOp' = Op("openUrl", index,
                        IF shareData = <<>> THEN "idle"
                        ELSE IF loaded.ok THEN "viewing" ELSE "corrupted")
        /\ UNCHANGED <<speechSupported, clipboard, clipboardApi, download>>

\* the link is built and handed to the clipboard; the catch block (alert)
\* receives an exception of the encoding and the TypeError of an undefined
\* navigator.clipboard; a rejected writeText promise is not handled
handleCopyLink ==
    /\ Mounted
    /\ \E encoded \in {IF wikiData \in DOMAIN EncodedDocs
                        THEN EncodedDocs[wikiData] ELSE EncodeShare(wikiData)} :
       LET shareUrl == Url(encoded.value, SectionHash(activeSection))
       IN  IF encoded.ok /\ clipboardApi
           THEN \/ /\ clipboard' = shareUrl
                   /\ lastOp' = Op("handleCopyLink", activeSection, "copied")
                \/ /\ clipboard' = clipboard
                   /\ lastOp' = Op("handleCopyLink", activeSection, "rejected")
           ELSE /\ clipboard' = clipboard
                /\ lastOp' = Op("handleCopyLink", activeSection, "alert")
    /\ UNCHANGED <<appState, wikiData, hash, timers, navVars, ttsState,
                   speechSupported, synthVars, search, clipboardApi, download>>

(***************************************************************************)
(* WikiRenderer: glossary extraction.                                      *)
(***************************************************************************)
\* String.prototype.toLowerCase / toUpperCase on the ASCII letters
ToLowerChar(c) ==
    IF c \in {Ascii[k] : k \in 34..59} THEN Ascii[CodeUnit(c) + 1] ELSE c

ToUpperChar(c) ==
    IF c \in {Ascii[k] : k \in 66..91} THEN Ascii[CodeUnit(c) - 63] ELSE c

toLowerCase(s) == [k \in 1..Len(s) |-> ToLowerChar(s[k])]

\* \s: the space is the only white space of the texts of the model
IsSpace(c) == c = " "

RECURSIVE TrimEnd(_)
TrimEnd(s) ==
    IF s # <<>> /\ IsSpace(s[Len(s)]) THEN TrimEnd(SubSeq(s, 1, Len(s) - 1)) ELSE s

\* String.prototype.trim
trim(s) == TrimEnd(SkipSpace(s))

NotStar(c) == c # "*"

\* [:,\s-] and the two dashes of defRegex ("U+2014", "U+2013")
IsSeparator(c) == IsSpace(c) \/ c \in {":", ",", "-", "U+2014", "U+2013"}

\* [^.\n]
NotStop(c) == c # "."

\* the character classes of the regular expressions
InClass(c, class) ==
    IF class = "notStar" THEN NotStar(c)
    ELSE IF class = "digit" THEN IsDigit(c)
    ELSE IF class = "space" THEN IsSpace(c)
    ELSE IF class = "separator" THEN IsSeparator(c)
    ELSE NotStop(c)

\* the first index k >= i with s[k] outside class, Len(s) + 1 when none
RunEnd(s, i, class) ==
    CHOOSE k \in i..(Len(s) + 1) :
        /\ k = Len(s) + 1 \/ ~InClass(s[k], class)
        /\ \A m \in i..(k - 1) : InClass(s[m], class)

\* s.slice(i) for a 1-based i
SliceFrom(s, i) == SubSeq(s, i, Len(s))


StarAt(s, i) == i \in 1..Len(s) /\ s[i] = "*"

\* /\*\*([^*]+)\*\*/ matches at index p of s
MatchAt(s, p) ==
    /\ StarAt(s, p) /\ StarAt(s, p + 1)
    /\ p + 2 <= Len(s) /\ ~StarAt(s, p + 2)
    /\ StarAt(s, RunEnd(s, p + 2, "notStar"))
    /\ StarAt(s, RunEnd(s, p + 2, "notStar") + 1)

RECURSIVE Matches(_, _)
\* the successive results of regex.exec(s) from lastIndex = from - 1 on:
\* index is match.index + 1, inner is match[1], next is regex.lastIndex + 1
Matches(s, from) ==
    IF \A p \in from..Len(s) : ~MatchAt(s, p) THEN <<>>
    ELSE LET p == CHOOSE p \in from..Len(s) :
                      MatchAt(s, p) /\ \A r \in from..(p - 1) : ~MatchAt(s, r)
             q == RunEnd(s, p + 2, "notStar")
         IN  <<[index |-> p, inner |-> SubSeq(s, p + 2, q - 1), next |-> q + 2]>>
             \o Matches(s, q + 2)

IsDigits(s) == s # <<>> /\ \A k \in 1..Len(s) : IsDigit(s[k])

\* !isNaN(Number(term)) for a trimmed term of at least 2 characters: an
\* optional sign, then digits with an optional fraction, or a fraction
\* alone (the terms of the model hold no exponent, no radix prefix and not
\* the word Infinity)
IsNumeric(term) ==
    LET body == IF Head(term) \in {"+", "-"} THEN Tail(term) ELSE term
        dot  == RunEnd(body, 1, "digit")
    IN  \/ IsDigits(body)
        \/ /\ dot <= Len(body) /\ body[dot] = "."
           /\ \A k \in (dot + 1)..Len(body) : IsDigit(body[k])
           /\ Len(body) >= 2


\* the lead-in words of defRegex, in the order of the alternation
LeadIns ==
    <<<<"i", "s">>, <<"a", "r", "e">>,
      <<"r", "e", "f", "e", "r", "s", " ", "t", "o">>,
      <<"m", "e", "a", "n", "s">>>>

StartsWith(s, i, word) ==
    /\ i + Len(word) - 1 <= Len(s)
    /\ toLowerCase(SubSeq(s, i, i + Len(word) - 1)) = word

\* the length of the lead-in word at s[i], 0 when there is none
LeadInAt(s, i) ==
    IF \E w \in 1..Len(LeadIns) : StartsWith(s, i, LeadIns[w])
    THEN Len(LeadIns[CHOOSE w \in 1..Len(LeadIns) : StartsWith(s, i, LeadIns[w])])
    ELSE 0

\* defMatch[2] of rest.match(defRegex), <<>> when there is no match:
\* ^([:,\s-]+(?:is|are|refers to|means)?\s*)([^.\n]+) with its greedy
\* choices in order: all separators, the lead-in word, all white space,
\* then the text up to the first full stop or line end
DefMatch(rest) ==
    LET k     == RunEnd(rest, 1, "separator")
        w     == k + LeadInAt(rest, k)
        t     == RunEnd(rest, w, "space")
        after == SubSeq(rest, t, RunEnd(rest, t, "notStop") - 1)
        plain == SubSeq(rest, k, RunEnd(rest, k, "notStop") - 1)
    IN  IF k = 1 THEN <<>>
        ELSE IF w > k /\ after # <<>> THEN after
        ELSE IF w > k /\ t > w /\ NotStop(rest[t - 1])
        THEN SubSeq(rest, t - 1, RunEnd(rest, t - 1, "notStop") - 1)
        ELSE IF plain # <<>> THEN plain
        ELSE IF k > 2 /\ NotStop(rest[k - 1]) THEN <<rest[k - 1]>>
        ELSE <<>>

\* definition.length > 200
DefinitionLimit == 200

\* the definition stored for a term followed by rest
Definition(rest) ==
    LET text  == trim(DefMatch(rest))
        short == IF Len(text) > DefinitionLimit
                 THEN SubSeq(text, 1, DefinitionLimit) \o <<".", ".", ".">>
                 ELSE text
    IN  IF short = <<>> THEN <<>>
        ELSE <<ToUpperChar(short[1])>> \o Tail(short)

\* the key of map equal to term ignoring case, <<>> when there is none
ExistingKey(map, term) ==
    IF \E k \in 1..Len(map) : toLowerCase(map[k].term) = toLowerCase(term)
    THEN map[CHOOSE k \in 1..Len(map) :
                 /\ toLowerCase(map[k].term) = toLowerCase(term)
                 /\ \A j \in 1..(k - 1) : toLowerCase(map[j].term) # toLowerCase(term)].term
    ELSE <<>>

\* map.set(term, definition) on a Map kept as the sequence of its entries
MapSet(map, term, definition) ==
    IF \E k \in 1..Len(map) : map[k].term = term
    THEN [k \in 1..Len(map) |->
             IF map[k].term = term THEN [term |-> term, definition |-> definition]
             ELSE map[k]]
    ELSE Append(map, [term |-> term, definition |-> definition])

\* the body of the while loop without the existing-key check
AddMatch_Overwrite(map, content, match) ==
    LET term == trim(match.inner)
    IN  IF Len(term) < 2 \/ IsNumeric(term) THEN map
        ELSE MapSet(map, term, Definition(SliceFrom(content, match.next)))

\* the body of the while loop without the length and number filter
AddMatch_NoFilter(map, content, match) ==
    LET term == trim(match.inner)
    IN  IF ExistingKey(map, term) # <<>> THEN map
        ELSE MapSet(map, term, Definition(SliceFrom(content, match.next)))

\* the body of the while loop for one match of the regex
AddMatch(map, content, match) ==
    LET term == trim(match.inner)
    IN  IF Len(term) < 2 \/ IsNumeric(term) THEN map
        ELSE IF ExistingKey(map, term) # <<>> THEN map
        ELSE MapSet(map, term, Definition(SliceFrom(content, match.next)))

RECURSIVE AddMatches(_, _, _)
AddMatches(map, content, matches) ==
    IF matches = <<>> THEN map
    ELSE AddMatches(AddMatch(map, content, Head(matches)), content, Tail(matches))

RECURSIVE AddSections(_, _)
\* data.sections.forEach(section => ..)
AddSections(map, sections) ==
    IF sections = <<>> THEN map
    ELSE AddSections(AddMatches(map, Head(sections).content,
                                Matches(Head(sections).content, 1)),
                     Tail(sections))

\* glossaryMap of the viewer of document d: the entries in insertion order
Glossary(d) == AddSections(<<>>, d.sections)

\* useMemo(.., [data]): the glossary of the document shown
glossaryMap == Glossary(wikiData)

(***************************************************************************)
(* WikiRenderer: formatContent.  A fragment is [kind |-> "text", text] or  *)
(* [kind |-> "term", term, found, definition], found telling whether the   *)
(* glossary has a key for the term (definition is undefined otherwise).    *)
(***************************************************************************)
\* the line feed character, which the dot of a regular expression skips
LineFeed == "U+000A"

RECURSIVE CloseAt(_, _)
\* .*?\*\* tried from index q of s: the index where the closing delimiter
\* starts, 0 when there is none before the end of the line
CloseAt(s, q) ==
    IF q + 1 > Len(s) THEN 0
    ELSE IF s[q] = "*" /\ s[q + 1] = "*" THEN q
    ELSE IF s[q] = LineFeed THEN 0
    ELSE CloseAt(s, q + 1)

RECURSIVE EmphasisMatches(_, _)
\* the matches of /(\*\*.*?\*\*)/g in s from index p on, left to right,
\* each [index, next]
EmphasisMatches(s, p) ==
    IF p + 3 > Len(s) THEN <<>>
    ELSE IF StarAt(s, p) /\ StarAt(s, p + 1) /\ CloseAt(s, p + 2) # 0
    THEN <<[index |-> p, next |-> CloseAt(s, p + 2) + 2]>>
         \o EmphasisMatches(s, CloseAt(s, p + 2) + 2)
    ELSE EmphasisMatches(s, p + 1)

\* content.split(/(\*\*.*?\*\*)/g): the texts between the matches with the
\* matches themselves (the capture group) in between
SplitParts(s) ==
    LET ms == EmphasisMatches(s, 1)
        k  == Len(ms)
    IN  [j \in 1..(2 * k + 1) |->
            IF j % 2 = 0 THEN SubSeq(s, ms[j \div 2].index, ms[j \div 2].next - 1)
            ELSE SubSeq(s,
                        IF j = 1 THEN 1 ELSE ms[(j - 1) \div 2].next,
                        IF j = 2 * k + 1 THEN Len(s) ELSE ms[(j + 1) \div 2].index - 1)]

startsWith(s, prefix) ==
    Len(s) >= Len(prefix) /\ SubSeq(s, 1, Len(prefix)) = prefix

endsWith(s, suffix) ==
    Len(s) >= Len(suffix) /\ SubSeq(s, Len(s) - Len(suffix) + 1, Len(s)) = suffix

TextFragment(text) == [kind |-> "text", text |-> text]

\* the lookup of formatContent comparing keys without toLowerCase
TermFragment_ExactCase(term, map) ==
    LET found == \E k \in 1..Len(map) : map[k].term = term
    IN  [kind |-> "term", term |-> term, found |-> found,
         definition |-> IF found
                        THEN map[CHOOSE k \in 1..Len(map) : map[k].term = term].definition
                        ELSE <<>>]

\* <GlossaryTerm term={term} definition={definition} />
TermFragment(term, map) ==
    LET matchedKey == ExistingKey(map, term)
    IN  [kind |-> "term", term |-> term, found |-> matchedKey # <<>>,
         definition |-> IF matchedKey # <<>>
                        THEN map[CHOOSE k \in 1..Len(map) : map[k].term = matchedKey].definition
                        ELSE <<>>]

\* the callback of parts.map: part.slice(2, -2) is the term of a part that
\* starts and ends with the doubled delimiter
Fragment(part, map) ==
    IF startsWith(part, <<"*", "*">>) /\ endsWith(part, <<"*", "*">>)
    THEN TermFragment(SubSeq(part, 3, Len(part) - 2), map)
    ELSE TextFragment(part)

\* formatContent(content) in a viewer whose glossary is map
formatContent(content, map) ==
    IF content = <<>> THEN <<>>
    ELSE LET parts == SplitParts(content)
         IN  [j \in 1..Len(parts) |-> Fragment(parts[j], map)]

\* the fragments the viewer renders for section index of the document shown
Rendered(index) == formatContent(wikiData.sections[index + 1].content, glossaryMap)

(***************************************************************************)
(* WikiRenderer: Markdown export.                                          *)
(***************************************************************************)
Undefined == <<"u", "n", "d", "e", "f", "i", "n", "e", "d">>

\* ${object.field} in a template literal: the text of a field the object
\* lacks is "undefined"
Template(object, field) ==
    IF field \in DOMAIN object THEN object[field] ELSE Undefined

\* array.join(separator)
Join(array, separator) ==
    Concat([k \in 1..(2 * Len(array) - 1) |->
               IF k % 2 = 1 THEN array[(k + 1) \div 2] ELSE separator])

\* section.keyPoints?.map(p => `- ${p}`).join('\n') || ''
KeyPointLines(section) ==
    IF "keyPoints" \in DOMAIN section
    THEN Join([k \in 1..Len(section.keyPoints) |-> <<"-", " ">> \o section.keyPoints[k]],
              <<LineFeed>>)
    ELSE <<>>

\* the text one section adds to mdContent
SectionMarkdown(section) ==
    <<"#", "#", " ">> \o Template(section, "heading") \o <<LineFeed, LineFeed>>
    \o Template(section, "content")
    \o <<LineFeed, LineFeed, "#", "#", "#", " ", "K", "e", "y", " ",
         "P", "o", "i", "n", "t", "s", LineFeed>>
    \o KeyPointLines(section) \o <<LineFeed, LineFeed>>

\* mdContent of handleExportMD for document d
Markdown(d) ==
    <<"#", " ">> \o d.title \o <<LineFeed, LineFeed>>
    \o Template(d, "summary") \o <<LineFeed, LineFeed>>
    \o Concat([k \in 1..Len(d.sections) |-> SectionMarkdown(d.sections[k])])

\* title.replace(/\s+/g, '_')
Underscored(title) ==
    Concat([k \in 1..Len(title) |->
               IF ~IsSpace(title[k]) THEN <<title[k]>>
               ELSE IF k > 1 /\ IsSpace(title[k - 1]) THEN <<>>
               ELSE <<"_">>])

\* an export that takes the sections off the document while it writes them
handleExportMD_Shifts ==
    /\ Mounted
    /\ download' = [name |-> Underscored(wikiData.title) \o <<".", "m", "d">>,
                    content |-> Markdown(wikiData)]
    /\ wikiData' = [wikiData EXCEPT !.sections = <<>>]
    /\ lastOp' = Op("handleExportMD", -1, "none")
    /\ UNCHANGED <<appState, hash, timers, navVars, ttsState,
                   speechSupported, synthVars, search, clipboard, clipboardApi>>

\* the Markdown file is built and handed to the browser as a download
handleExportMD ==
    /\ Mounted
    /\ download' = [name |-> Underscored(wikiData.title) \o <<".", "m", "d">>,
                    content |-> Markdown(wikiData)]
    /\ lastOp' = Op("handleExportMD", -1, "none")
    /\ UNCHANGED <<appState, wikiData, hash, timers, navVars, ttsState,
                   speechSupported, synthVars, search, clipboard, clipboardApi>>

(***************************************************************************)
(* Specifications.                                                         *)
(***************************************************************************)
\* fragments the page may be opened with
InitHashes ==
    {NoHash, <<"#top">>, SectionHash(1), SectionHash(3), SectionHash(7),
     <<SectionPrefix, "-", "1">>, <<SectionPrefix, "x">>}

\* documents of the read-aloud specification
TtsDocs ==
    {[title |-> <<"T">>,
      sections |-> <<[content |-> <<"a", "*", "*", "b", "*", "*">>],
                     [content |-> <<"*", "c">>]>>]}

InitState(hashes, supported, clipboards) ==
    /\ appState = "IDLE"
    /\ wikiData = NoData
    /\ hash \in hashes
    /\ timers = <<>>
    /\ activeSection = 0
    /\ collapsedSections = {}
    /\ history = <<0>>
    /\ historyIndex = 0
    /\ ttsState = Stopped
    /\ speechSupported \in supported
    /\ synthQueue = <<>>
    /\ synthPaused = FALSE
    /\ events = <<>>
    /\ search = NoShare
    /\ clipboard = Url(NoShare, <<>>)
    /\ clipboardApi \in clipboards
    /\ download = NoFile
    /\ lastOp = NoOp

InitWith(hashes, supported) == InitState(hashes, supported, {TRUE})

AppNext(docs) ==
    \/ handleFilesSelected
    \/ handleTopicSelected
    \/ \E d \in docs : GenerateResolved(d)
    \/ GenerateRejected
    \/ resetApp

NavNext ==
    \/ \E index \in SectionIds : handleScrollToSection(index)
    \/ \E index \in SectionIds : toggleSection(index)
    \/ handleHistoryBack
    \/ handleHistoryForward
    \/ TimerFires

TtsNext ==
    \/ \E index \in SectionIds : handleTTS(index)
    \/ stopTTS
    \/ DeliverEvent
    \/ UtteranceEnds
    \/ UtteranceFails

Init == InitWith(InitHashes, {TRUE})

Next == AppNext(NavDocs) \/ NavNext

\* the navigator: the App shell and the viewer's navigation handlers
Spec == Init /\ [][Next]_vars

InitTts == InitWith({NoHash}, BOOLEAN)

NextTts == AppNext(TtsDocs) \/ TtsNext

\* the read-aloud controller: the App shell, the viewer's speech handlers
\* and the speech engine
SpecTts == InitTts /\ [][NextTts]_vars

\* documents and fragments of the whole-viewer specification
ViewDocs == {Doc(2, <<"a">>)}

\* fragments of the whole-viewer specification: none, a section of the
\* document, a section beyond it, and a section index followed by a letter
ViewHashes == {NoHash, SectionHash(1), SectionHash(7), <<SectionPrefix, "1", "x">>}

InitView == InitWith(ViewHashes, {TRUE})

NextView ==
    \/ AppNext(ViewDocs)
    \/ \E index \in SectionIds : toggleSection(index)
    \/ \E index \in SectionIds : handleTTS(index)
    \/ DeliverEvent

\* the viewer's lifecycle: the App shell with the handlers that change each
\* part of the viewer's interaction state
SpecView == InitView /\ [][NextView]_vars

ShareHashes == {NoHash, SectionHash(1)}

InitShare == InitState({NoHash}, {TRUE}, BOOLEAN)

NextShare ==
    \/ AppNext(ShareDocs)
    \/ \E share \in ShareInputs, fragment \in ShareHashes : OpenUrl(Url(share, fragment))
    \/ clipboard.share # NoShare /\ OpenUrl(clipboard)
    \/ handleCopyLink
    \/ \E index \in SectionIds : handleScrollToSection(index)

\* sharing: the App shell, the viewer's share link and the page loads that
\* open a link
SpecShare == InitShare /\ [][NextShare]_vars

\* the emphasized terms of the glossary specification: one term in three
\* casings (one padded with a space), another term, a number and a term
\* of one character
GlossTerms ==
    {<<"A", "b">>, <<"a", "b">>, <<"a", "B", " ">>, <<"c", "d">>, <<"1", "1">>, <<"a">>}

\* the texts that follow a term
GlossTails ==
    {<<>>, <<":", " ", "x", ".">>, <<" ", "i", "s", " ", "y", ".", " ">>, <<" ">>}

Mention(term, tail) == <<"*", "*">> \o term \o <<"*", "*">> \o tail

Mentions == {Mention(term, tail) : term \in GlossTerms, tail \in GlossTails}

\* two mentions in one section, or in two sections; and one mention of a
\* term that holds the delimiter character itself
GlossDocs ==
    {[title |-> <<"T">>, sections |-> <<[content |-> m1 \o m2]>>] :
        m1 \in Mentions, m2 \in Mentions}
    \cup {[title |-> <<"T">>, sections |-> <<[content |-> m1], [content |-> m2]>>] :
        m1 \in Mentions, m2 \in Mentions}
    \cup {[title |-> <<"T">>, sections |-> <<[content |-> Mention(term, tail)]>>] :
        term \in {<<"a", "*", "b">>, <<"*", "a", "b", "*">>}, tail \in GlossTails}

InitGloss == InitWith({NoHash}, {TRUE})

NextGloss == AppNext(GlossDocs)

\* the glossary: the App shell showing documents with emphasized terms
SpecGloss == InitGloss /\ [][NextGloss]_vars

\* the characters of the formatter specification's content strings
FormatAlphabet == {"a", "*", LineFeed}

\* every content string of at most MaxContent characters
FormatContents == UNION {[1..n -> FormatAlphabet] : n \in 0..MaxContent}

\* one section holding the content string
FormatDocs == {Doc(1, content) : content \in FormatContents}

InitFormat == InitWith({NoHash}, {TRUE})

NextFormat == AppNext(FormatDocs)

\* the formatter: the App shell showing documents of every short content
SpecFormat == InitFormat /\ [][NextFormat]_vars

\* section number of an export document, with keyPoints key points and
\* citations citations, every text different from the others
ExportSection(number, keyPoints, citations) ==
    [heading   |-> <<"H", IntToStr(number)[1]>>,
     content   |-> <<"c", IntToStr(number)[1]>>,
     keyPoints |-> [k \in 1..keyPoints |-> <<"k", IntToStr(number)[1], IntToStr(k)[1]>>],
     citations |-> [k \in 1..citations |-> <<"r", IntToStr(number)[1], IntToStr(k)[1]>>]]

\* documents with every field of WikiData that the export reads
ExportDocs ==
    {[title    |-> title,
      summary  |-> <<"s", "m">>,
      sections |-> [k \in 1..n |-> ExportSection(k, keyPoints, citations)]] :
        title \in {<<"T">>, <<"T", " ", " ", "t">>},
        n \in 1..2, keyPoints \in 0..2, citations \in 0..2}

InitExport == InitWith({NoHash}, {TRUE})

NextExport == AppNext(ExportDocs) \/ handleExportMD

\* the Markdown export: the App shell and the viewer's export handler
SpecExport == InitExport /\ [][NextExport]_vars

InitComponent == InitWith({NoHash}, BOOLEAN)

NextComponent ==
    \/ handleFilesSelected
    \/ \E d \in TtsDocs : GenerateResolved(d)
    \/ \E index \in SectionIds : ComponentHandleTTS(index)
    \/ ComponentDeliverEvent
    \/ UtteranceEnds
    \/ UtteranceFails

\* read aloud in the viewer of components/WikiRenderer.tsx: one document is
\* generated and shown, then sections are requested and the engine speaks
SpecComponent == InitComponent /\ [][NextComponent]_vars

\* the document of the whole-component specification
OpsDocs == {Doc(2, <<"a">>)}

InitOps == InitState({NoHash}, BOOLEAN, BOOLEAN)

NextOps ==
    \/ handleFilesSelected
    \/ \E d \in OpsDocs : GenerateResolved(d)
    \/ \E index \in SectionIds : toggleSection(index)
    \/ \E index \in SectionIds : handleTTS(index)
    \/ DeliverEvent
    \/ UtteranceFails
    \/ handleCopyLink
    \/ handleExportMD

\* one viewer from its mount on: collapse and navigation, read aloud, share
\* and export side by side, with and without a speech engine and a
\* clipboard
SpecOps == InitOps /\ [][NextOps]_vars

(***************************************************************************)
(* Navigation history.                                                     *)
(***************************************************************************)
\* C1: when the cursor is not at the end of the history and selectSection(j)
\* is called with j different from the entry at the cursor, the new history
\* is the first cursor+1 entries of the old one followed by j, and the
\* cursor points at j.
C1_TruncateForward ==
    [][\A j \in SectionIds :
          (handleScrollToSection(j) /\ historyIndex < Len(history) - 1 /\ j # AtCursor)
          => /\ history' = SubSeq(history, 1, historyIndex + 1) \o <<j>>
             /\ historyIndex' = historyIndex + 1
             /\ history'[historyIndex' + 1] = j]_vars

\* history [0,1,x] with cursor 1 (after goBack), then selectSection(3):
\* history [0,1,3], cursor 2
C1_Witness ==
    /\ lastOp.op = "selectSection" /\ lastOp.arg = 3 /\ lastOp.branch = "truncate"
    /\ history = <<0, 1, 3>>
    /\ historyIndex = 2

\* C2: selectSection(i) with i already the entry at the cursor leaves the
\* history sequence and the cursor unchanged.
C2_SameSectionNoOp ==
    [][\A i \in SectionIds :
          (handleScrollToSection(i) /\ AtCursor = i)
          => (history' = history /\ historyIndex' = historyIndex)]_vars

C2_Witness ==
    /\ lastOp.op = "selectSection" /\ lastOp.branch = "same"
    /\ AtCursor = lastOp.arg
    /\ Len(history) = 3 /\ historyIndex = 1

\* C3: in every reachable state the history is not empty and the cursor is
\* a valid index into it.
C3_CursorValid ==
    /\ history # <<>>
    /\ 0 <= historyIndex
    /\ historyIndex < Len(history)

C3_Witness ==
    /\ lastOp.op = "goBack" /\ lastOp.branch = "move"
    /\ Len(history) = 3 /\ historyIndex = 0

\* C4: the history never holds two equal consecutive entries.
C4_NoConsecutiveDuplicates ==
    \A k \in 1..(Len(history) - 1) : history[k] # history[k + 1]

C4_Witness ==
    /\ lastOp.op = "selectSection" /\ lastOp.branch = "truncate"
    /\ Len(history) = 3 /\ history[1] = history[3]

\* C5: the active section is the history entry at the cursor in every state
\* between events.
C5_ActiveIsAtCursor == activeSection = AtCursor

C5_Witness ==
    /\ lastOp.op = "toggleSection" /\ lastOp.branch = "expand-navigate"
    /\ activeSection = lastOp.arg /\ AtCursor = lastOp.arg
    /\ historyIndex = 2

(***************************************************************************)
(* Read aloud.                                                             *)
(***************************************************************************)
\* the handler that ran last was handleTTS and it spoke a new utterance
LastSpoke == lastOp.op = "handleTTS" /\ lastOp.branch = "speak"

\* the engine is speaking (or holds paused) an utterance it has started
Speaking == synthQueue # <<>> /\ Head(synthQueue).started

\* C6: a request for section j while section i (i # j) is playing cancels
\* i's utterance before j's synthesis begins (the engine holds j's utterance
\* only), and once the engine's events are delivered the speech state is
\* playing(j).
C6_SwitchSection ==
    (/\ LastSpoke
     /\ lastOp.settled
     /\ lastOp.pre.status = "playing"
     /\ lastOp.pre.idx # lastOp.arg)
    => /\ \A k \in 1..Len(synthQueue) : synthQueue[k].index = lastOp.arg
       /\ (events = <<>> /\ Speaking) => ttsState = Playing(lastOp.arg)

C6_Witness ==
    /\ LastSpoke
    /\ lastOp.settled
    /\ lastOp.pre = Playing(0)
    /\ lastOp.arg = 1
    /\ events = <<>>
    /\ Speaking
    /\ ttsState = Playing(1)

\* C7: the engine never holds more than one utterance, queued or speaking.
C7_AtMostOneUtterance == Len(synthQueue) <= 1

C7_Witness ==
    /\ LastSpoke
    /\ lastOp.pre.status = "paused"
    /\ lastOp.settled
    /\ Len(synthQueue) = 1
    /\ synthQueue[1].index = lastOp.arg

\* C8: the speech status is playing or paused only with a real section as
\* the active index; with active index -1 the status is stopped.
C8_StatusHasSection ==
    /\ ttsState.status \in {"playing", "paused"} => ttsState.idx \in SectionIds
    /\ ttsState.idx = -1 => ttsState.status = "stopped"

\* the utterances of a queue, whether started or not
Utterances(q) == [k \in 1..Len(q) |-> <<q[k].index, q[k].text>>]

\* C9: a request on the section that is playing moves the speech state to
\* paused on that section, a request on the section that is paused moves it
\* to playing on that section, and neither puts a new utterance in the
\* engine.
C9_PauseResumeInPlace ==
    [][\A i \in SectionIds :
          (handleTTS(i) /\ speechSupported /\ ttsState.idx = i)
          => /\ ttsState.status = "playing" => ttsState' = Paused(i)
             /\ ttsState.status = "paused" => ttsState' = Playing(i)
             /\ Utterances(synthQueue') = Utterances(synthQueue)]_vars

C9_Witness ==
    /\ lastOp.op = "handleTTS" /\ lastOp.branch = "resume"
    /\ lastOp.settled
    /\ lastOp.pre = Paused(lastOp.arg)
    /\ ttsState = Playing(lastOp.arg)
    /\ Settled


\* the doubled delimiter occurs in text
HasDelimiter(text) ==
    \E k \in 1..(Len(text) - 1) : text[k] = "*" /\ text[k + 1] = "*"

\* C10: from the stopped state, request(i) with speech synthesis available
\* leaves in the engine only the utterance of section i, whose text is the
\* section's content without the emphasis delimiters, and the speech state
\* is playing(i) once synthesis has started and its events are delivered.
C10_StartFromStopped ==
    (LastSpoke /\ lastOp.pre = Stopped)
    => /\ \A k \in 1..Len(synthQueue) :
            /\ synthQueue[k].index = lastOp.arg
            /\ ~HasDelimiter(synthQueue[k].text)
            /\ SelectSeq(synthQueue[k].text, NotStar)
                 = SelectSeq(wikiData.sections[lastOp.arg + 1].content, NotStar)
       /\ (events = <<>> /\ Speaking) => ttsState = Playing(lastOp.arg)

C10_Witness ==
    /\ LastSpoke
    /\ lastOp.pre = Stopped
    /\ lastOp.arg = 0
    /\ events = <<>>
    /\ Speaking
    /\ synthQueue[1].text = <<"a", "b">>
    /\ ttsState = Playing(0)

\* C11: from playing(i) or paused(i), the delivery of the utterance's end
\* or error event leaves the speech state stopped with no active section.
C11_EndOrErrorStops ==
    [][(/\ DeliverEvent
        /\ Head(events).live
        /\ Head(events).type \in {"end", "error"}
        /\ ttsState.status \in {"playing", "paused"})
       => ttsState' = Stopped]_vars

\* section lastOp.arg was paused by the last request, and with no further
\* request the state is stopped and the engine empty: its utterance failed
C11_Witness ==
    /\ lastOp.op = "handleTTS" /\ lastOp.branch = "pause"
    /\ lastOp.settled
    /\ ttsState = Stopped
    /\ synthQueue = <<>>
    /\ events = <<>>

\* C12: an explicit stop cancels the engine's speech (no utterance stays
\* queued or speaking) and leaves the speech state stopped with no active
\* section.
C12_StopCancelsAndStops ==
    [][stopTTS => (ttsState' = Stopped /\ synthQueue' = <<>>)]_vars

C12_Witness ==
    /\ lastOp.op = "stopTTS"
    /\ lastOp.pre.status = "paused"
    /\ lastOp.settled
    /\ ttsState = Stopped
    /\ synthQueue = <<>>

\* C13: after a document change, an unmount or a reset no utterance of the
\* previous view remains in the engine: the engine is empty while no viewer
\* is shown, and every utterance it holds belongs to the viewer shown.
C13_NoSpeechOutlivesView ==
    /\ ~Mounted => synthQueue = <<>>
    /\ \A k \in 1..Len(synthQueue) : synthQueue[k].live

C13_Witness ==
    /\ lastOp.op = "handleTopicSelected"
    /\ lastOp.pre.status = "playing"
    /\ lastOp.settled
    /\ synthQueue = <<>>

\* C14: the callback of an utterance that a later request, a stop or a
\* document change has superseded does not change the speech state.
C14_StaleCallbackIgnored ==
    [][(DeliverEvent /\ Head(events).stale) => ttsState' = ttsState]_vars

\* C15: without speech synthesis in the host, request(i) changes nothing:
\* the speech state, the engine and the navigation state stay as they are.
C15_UnsupportedNoOp ==
    [][\A i \in SectionIds :
          (handleTTS(i) /\ ~speechSupported)
          => UNCHANGED <<ttsState, synthVars, navVars, appState, wikiData>>]_vars

C15_Witness ==
    /\ lastOp.op = "handleTTS" /\ lastOp.branch = "unsupported"
    /\ ~speechSupported
    /\ ttsState = Stopped
    /\ synthQueue = <<>>

C17_ShareRoundTrip ==
    (lastOp.op = "handleCopyLink" /\ lastOp.branch = "copied")
    => (LoadShared(clipboard.share).ok
        /\ LoadShared(clipboard.share).value = wikiData)

\* the share value of the page is corrupted: it is not base64, or not the
\* URI encoding of a JSON text, or the JSON value is not an object with a
\* title and a sections field
CorruptedShare(share) ==
    \E bin \in {atob(FormDecode(share))} :
        \/ ~bin.ok
        \/ \E jsonStr \in {decodeURIComponent(bin.value)} :
               \/ ~jsonStr.ok
               \/ \E data \in {JSONparse(jsonStr.value)} :
                      \/ ~data.ok
                      \/ data.value.null
                      \/ ~data.value.hasTitle
                      \/ ~data.value.hasSections

CorruptedInputs == {share \in ShareInputs : CorruptedShare(share)}

\* C18: a page opened with a corrupted share value ends in the error view
\* with no document accepted and no viewer shown.
C18_CorruptedShareRejected ==
    (lastOp.op = "openUrl" /\ search \in CorruptedInputs)
    => (appState = "ERROR" /\ wikiData = NoData /\ ~Mounted)

\* the spec's second example: base64 of "{}"
C18_Witness ==
    /\ lastOp.op = "openUrl" /\ lastOp.branch = "corrupted"
    /\ search = Encode(Str(<<"{", "}">>)).value
    /\ search \in CorruptedInputs
    /\ appState = "ERROR"
    /\ wikiData = NoData

\* the practical length of a URL, scaled to the documents of the model
UrlLimit == 130

\* C19: when the encoded payload is longer than the URL length threshold,
\* handleCopyLink takes its warning branch and hands no link to the
\* clipboard.
C19_TooLargeWarns ==
    [][(handleCopyLink /\ Len(EncodeShare(wikiData).value) > UrlLimit)
       => (lastOp'.branch = "alert" /\ clipboard' = clipboard)]_vars

(***************************************************************************)
(* Glossary.                                                               *)
(***************************************************************************)
\* the emphasized terms of one section in order of position, each with the
\* definition its own trailing text gives
SectionOccurrences(content) ==
    LET ms == Matches(content, 1)
    IN  [k \in 1..Len(ms) |->
            [term |-> trim(ms[k].inner),
             definition |-> Definition(SliceFrom(content, ms[k].next))]]

\* the emphasized terms of a document in document order
Occurrences(d) ==
    Concat([k \in 1..Len(d.sections) |-> SectionOccurrences(d.sections[k].content)])

SameTerm(a, b) == toLowerCase(a) = toLowerCase(b)

\* C20: no two glossary keys are equal ignoring case, and every entry has
\* the casing and the definition of the first occurrence of its term in
\* document order.
C20_FirstOccurrenceWins ==
    Mounted =>
        LET g   == glossaryMap
            occ == Occurrences(wikiData)
        IN  /\ \A i, j \in 1..Len(g) : i # j => ~SameTerm(g[i].term, g[j].term)
            /\ \A i \in 1..Len(g) :
                   \E o \in 1..Len(occ) :
                       /\ SameTerm(occ[o].term, g[i].term)
                       /\ \A e \in 1..(o - 1) : ~SameTerm(occ[e].term, g[i].term)
                       /\ occ[o] = g[i]

\* one term emphasized twice, in two casings and with two trailing texts:
\* the glossary holds the first casing and the first definition
C20_Witness ==
    /\ Mounted
    /\ wikiData.sections =
           <<[content |-> Mention(<<"A", "b">>, <<":", " ", "x", ".">>)
                          \o Mention(<<"a", "b">>, <<" ", "i", "s", " ", "y", ".", " ">>)]>>
    /\ glossaryMap = <<[term |-> <<"A", "b">>, definition |-> <<"X">>]>>

\* C21: no glossary key consists solely of digits and no glossary key has
\* fewer than 2 characters.
C21_NoNumericOrShortKey ==
    Mounted =>
        \A i \in 1..Len(glossaryMap) :
            /\ ~IsDigits(glossaryMap[i].term)
            /\ Len(glossaryMap[i].term) >= 2

\* a document that emphasizes a number and a word: only the word is a key
C21_Witness ==
    /\ Mounted
    /\ wikiData.sections =
           <<[content |-> Mention(<<"1", "1">>, <<":", " ", "x", ".">>)],
             [content |-> Mention(<<"c", "d">>, <<":", " ", "x", ".">>)]>>
    /\ glossaryMap = <<[term |-> <<"c", "d">>, definition |-> <<"X">>]>>

(***************************************************************************)
(* Navigation: boundaries, moves, selection, collapse.                     *)
(***************************************************************************)
\* C26: goBack with the cursor at 0 and goForward with the cursor at the
\* last history entry change none of activeSection, the collapse set, the
\* history sequence and the cursor.
C26_BoundaryNoOp ==
    [][((handleHistoryBack /\ historyIndex = 0)
        \/ (handleHistoryForward /\ historyIndex = Len(history) - 1))
       => UNCHANGED <<activeSection, collapsedSections, history, historyIndex>>]_vars

\* goBack at the start of a history of three entries, a section collapsed
C26_Witness ==
    /\ lastOp.op = "goBack" /\ lastOp.branch = "boundary"
    /\ Len(history) = 3 /\ historyIndex = 0
    /\ activeSection = history[1]
    /\ collapsedSections # {}

\* the cursor moved from historyIndex to historyIndex' over an unchanged
\* history, the entry there is active and expanded
MovedTo(newIndex) ==
    /\ historyIndex' = newIndex
    /\ history' = history
    /\ activeSection' = history[newIndex + 1]
    /\ collapsedSections' = collapsedSections \ {history[newIndex + 1]}

\* C27: goBack away from the start and goForward away from the end move the
\* cursor by exactly one position over an unchanged history, make the entry
\* at the new cursor the active section and remove it from the collapse
\* set; goForward right after a goBack that moved gives back the cursor and
\* the active section the goBack found.
C27_MoveByOne ==
    [][/\ (handleHistoryBack /\ historyIndex > 0) => MovedTo(historyIndex - 1)
       /\ (handleHistoryForward /\ historyIndex < Len(history) - 1)
              => MovedTo(historyIndex + 1)
       /\ (handleHistoryForward /\ lastOp.op = "goBack" /\ lastOp.branch = "move")
              => /\ historyIndex' = historyIndex + 1
                 /\ activeSection' = lastOp.arg
                 /\ lastOp'.branch = "move"]_vars

\* goForward right after goBack from the end of the history [0,1,3]
C27_Witness ==
    /\ lastOp.op = "goForward" /\ lastOp.branch = "move"
    /\ history = <<0, 1, 3>>
    /\ lastOp.arg = 1
    /\ historyIndex = 2
    /\ activeSection = 3
    /\ 3 \notin collapsedSections

\* C28: after selectSection(i) the active section is i, i is not in the
\* collapse set and every other section is collapsed exactly when it was.
C28_SelectActivatesAndExpands ==
    [][\A i \in SectionIds :
          (lastOp'.op = "selectSection" /\ lastOp'.arg = i /\ handleScrollToSection(i))
          => /\ activeSection' = i
             /\ i \notin collapsedSections'
             /\ \A j \in SectionIds \ {i} :
                    (j \in collapsedSections') <=> (j \in collapsedSections)]_vars

\* selectSection(1) with sections 0 and 2 collapsed
C28_Witness ==
    /\ lastOp.op = "selectSection" /\ lastOp.arg = 1
    /\ activeSection = 1
    /\ collapsedSections = {0, 2}

\* C29: toggleCollapse(i) flips the membership of i in the collapse set and
\* leaves every other section's membership as it was (so a second
\* toggleCollapse(i) restores the set); when the call collapses i the
\* active section is unchanged.
C29_ToggleFlips ==
    [][\A i \in SectionIds :
          (lastOp'.op = "toggleSection" /\ lastOp'.arg = i /\ toggleSection(i))
          => /\ (i \in collapsedSections') <=> (i \notin collapsedSections)
             /\ \A j \in SectionIds \ {i} :
                    (j \in collapsedSections') <=> (j \in collapsedSections)
             /\ (i \in collapsedSections') => activeSection' = activeSection]_vars

\* section 1 collapsed while section 0 is active and section 2 collapsed
C29_Witness ==
    /\ lastOp.op = "toggleSection" /\ lastOp.arg = 1 /\ lastOp.branch = "collapse"
    /\ collapsedSections = {1, 2}
    /\ activeSection = 0

(***************************************************************************)
(* Deep link.                                                              *)
(***************************************************************************)
\* the fragment h is #section-k written with the decimal digits of k
EncodesSection(h, k) == h = SectionHash(k)

\* C30: when a document is mounted, the navigator starts at history [k],
\* cursor 0, activeSection k with k expanded exactly when the fragment is
\* #section-k for a section index k of the document; with any other
\* fragment it starts at history [0], cursor 0, activeSection 0.
C30_SeedExactlyOnSectionIndex ==
    [][(appState = "PROCESSING" /\ appState' = "VIEWING")
       => LET n == Len(wikiData'.sections)
          IN  /\ \A k \in 0..(n - 1) :
                     EncodesSection(hash, k)
                     => /\ history' = <<k>>
                        /\ historyIndex' = 0
                        /\ activeSection' = k
                        /\ k \notin collapsedSections'
              /\ (\A k \in 0..(n - 1) : ~EncodesSection(hash, k))
                     => /\ history' = <<0>>
                        /\ historyIndex' = 0
                        /\ activeSection' = 0]_vars

(***************************************************************************)
(* Formatter.                                                              *)
(***************************************************************************)
RECURSIVE DelimiterCount(_, _)
\* how many doubled delimiters s holds from index p on, read left to right
\* without overlap
DelimiterCount(s, p) ==
    IF p + 1 > Len(s) THEN 0
    ELSE IF StarAt(s, p) /\ StarAt(s, p + 1) THEN 1 + DelimiterCount(s, p + 2)
    ELSE DelimiterCount(s, p + 1)

\* piece occurs in text
Contains(text, piece) ==
    \E k \in 1..(Len(text) - Len(piece) + 1) :
        SubSeq(text, k, k + Len(piece) - 1) = piece

\* C22: a content string holding a single doubled delimiter, which
\* therefore has no closing delimiter (as in "a **b"), is rendered as text
\* fragments only, and the delimiter characters are in that text.
C22_UnmatchedDelimiterLiteral ==
    Mounted =>
        \A i \in SectionIds :
            DelimiterCount(wikiData.sections[i + 1].content, 1) = 1
            => /\ \A j \in 1..Len(Rendered(i)) : Rendered(i)[j].kind = "text"
               /\ \E j \in 1..Len(Rendered(i)) :
                      Contains(Rendered(i)[j].text, <<"*", "*">>)

(***************************************************************************)
(* Markdown export.                                                        *)
(***************************************************************************)
\* C25: the Markdown text of the export holds the title, the summary and,
\* for every section, its heading, its content, each of its key points and
\* each of its citations.
C25_MarkdownHoldsEveryField ==
    (Mounted /\ lastOp.op = "handleExportMD")
    => LET text == download.content
       IN  /\ Contains(text, wikiData.title)
           /\ Contains(text, wikiData.summary)
           /\ \A k \in 1..Len(wikiData.sections) :
                  LET section == wikiData.sections[k]
                  IN  /\ Contains(text, section.heading)
                      /\ Contains(text, section.content)
                      /\ \A p \in 1..Len(section.keyPoints) :
                             Contains(text, section.keyPoints[p])
                      /\ \A c \in 1..Len(section.citations) :
                             Contains(text, section.citations[c])

(***************************************************************************)
(* Frame conditions.                                                       *)
(***************************************************************************)
\* a step of one of the viewer's handlers, timers or utterance callbacks
ViewerStep ==
    \/ \E index \in SectionIds :
           handleScrollToSection(index) \/ toggleSection(index) \/ handleTTS(index)
    \/ handleHistoryBack \/ handleHistoryForward \/ TimerFires
    \/ stopTTS \/ DeliverEvent \/ UtteranceEnds \/ UtteranceFails
    \/ handleCopyLink \/ handleExportMD

FailedCopy ==
    /\ lastOp'.op = "handleCopyLink"
    /\ lastOp'.branch \in {"rejected", "alert"}
    /\ handleCopyLink

\* a read-aloud request in a browser without speech synthesis
UnsupportedRequest ==
    /\ ~speechSupported
    /\ lastOp'.op = "handleTTS"
    /\ \E index \in SectionIds : handleTTS(index)

\* the onerror callback of an utterance of this viewer runs
ErrorCallback ==
    /\ Mounted
    /\ events # <<>>
    /\ Head(events).type = "error"
    /\ Head(events).live
    /\ DeliverEvent

RenderedTerms ==
    SelectSeq(Concat([k \in 1..Len(wikiData.sections) |-> Rendered(k - 1)]),
              LAMBDA f : f.kind = "term")

\* C31: every emphasized span of the document whose trimmed inner text has
\* at least 2 characters and is not a number has a glossary key equal to it
\* ignoring case, whether or not a definition follows the span.
C31_EverySpanHasKey ==
    Mounted =>
        \A j \in 1..Len(RenderedTerms) :
            LET term == trim(RenderedTerms[j].term)
            IN  (Len(term) >= 2 /\ ~IsNumeric(term))
                    => ExistingKey(glossaryMap, term) # <<>>

(***************************************************************************)
(* Formatter: empty emphasis.                                              *)
(***************************************************************************)
\* C32: no term fragment the formatter produces has the empty string as its
\* term: a doubled delimiter followed at once by the next doubled delimiter
\* is rendered as literal text.
C32_NoEmptyTerm ==
    Mounted =>
        \A j \in 1..Len(Rendered(0)) :
            Rendered(0)[j].kind = "term" => Rendered(0)[j].term # <<>>

(***************************************************************************)
(* Formatter: round trip.                                                  *)
(***************************************************************************)
\* a fragment written back as text: a term between two doubled delimiters
WrittenBack(fragment) ==
    IF fragment.kind = "term"
    THEN <<"*", "*">> \o fragment.term \o <<"*", "*">>
    ELSE fragment.text

\* C39: the fragments of a content string, written back in order with each
\* term between two doubled delimiters, are the content string.
C39_FormatRoundTrip ==
    Mounted =>
        Concat([j \in 1..Len(Rendered(0)) |-> WrittenBack(Rendered(0)[j])])
            = wikiData.sections[1].content

(***************************************************************************)
(* Formatter: glossary lookup.                                             *)
(***************************************************************************)
\* the glossary entries whose key equals term ignoring case
EntriesFor(term) ==
    {i \in 1..Len(glossaryMap) : SameTerm(glossaryMap[i].term, term)}

C35_ToggleKeepsNavigation ==
    [][\A i \in SectionIds :
          (lastOp'.op = "toggleSection" /\ lastOp'.arg = i /\ toggleSection(i))
          => UNCHANGED <<activeSection, history, historyIndex>>]_vars

\* C35, as the code has it: toggleCollapse(i) leaves activeSection, the
\* history sequence and the history cursor unchanged when it collapses
\* section i and when it expands the active section; expanding a section
\* that is not the active one selects it, so that i is the active section
\* and the history entry at the cursor.
C35_ToggleKeepsNavigationUnlessExpandingOther ==
    [][\A i \in SectionIds :
          (lastOp'.op = "toggleSection" /\ lastOp'.arg = i /\ toggleSection(i))
          => IF i \in collapsedSections /\ activeSection # i
             THEN /\ activeSection' = i
                  /\ history'[historyIndex' + 1] = i
                  /\ lastOp'.branch = "expand-navigate"
             ELSE UNCHANGED <<activeSection, history, historyIndex>>]_vars

\* the active section 1, reached over the history [0, 1], expanded again
C35_Witness ==
    /\ lastOp.op = "toggleSection" /\ lastOp.arg = 1 /\ lastOp.branch = "expand"
    /\ activeSection = 1
    /\ history = <<0, 1>>
    /\ historyIndex = 1

(***************************************************************************)
(* Navigation: indices stay inside the document.                           *)
(***************************************************************************)
\* C37: while a document with at least one section is shown, activeSection
\* and every entry of the history sequence are section indices of that
\* document.
C37_IndicesValid ==
    (Mounted /\ NumSections >= 1) =>
        /\ activeSection \in SectionIds
        /\ \A k \in 1..Len(history) : history[k] \in SectionIds

\* a document of two sections opened on a page whose fragment names section
\* 7: the viewer starts on section 0
C37_Witness ==
    /\ lastOp.op = "mount"
    /\ hash = SectionHash(7)
    /\ NumSections = 2
    /\ activeSection = 0
    /\ history = <<0>>

(***************************************************************************)
(* Lifecycle: a document opened from a related topic.                      *)
(***************************************************************************)
\* C36: the viewer of a document generated for a related topic starts with
\* activeSection 0 and the history [0] with the cursor at 0, whatever
\* section was active and whatever fragment was in the URL when the topic
\* was selected.
C36_RelatedTopicStartsAtZero ==
    [][(lastOp.op = "handleTopicSelected" /\ lastOp'.op = "mount")
          => /\ activeSection' = 0
             /\ history' = <<0>>
             /\ historyIndex' = 0]_vars

(***************************************************************************)
(* Share link: the copied URL opened again.                                *)
(***************************************************************************)
\* C34: a page load of the URL that handleCopyLink copied for document d
\* while section k was active shows d with activeSection = k and the
\* history [k] with the cursor at 0.
C34_CopiedLinkRestores ==
    [][(/\ lastOp'.op = "openUrl"
        /\ clipboard.share # NoShare
        /\ search' = clipboard.share
        /\ hash' = clipboard.hash)
          => \A d \in ShareDocs :
                 \A k \in 0..(Len(d.sections) - 1) :
                     clipboard = Url(EncodedDocs[d].value, SectionHash(k))
                         => /\ appState' = "VIEWING"
                            /\ wikiData' = d
                            /\ activeSection' = k
                            /\ history' = <<k>>
                            /\ historyIndex' = 0]_vars

(***************************************************************************)
(* components/WikiRenderer.tsx: pause and resume.                          *)
(***************************************************************************)
\* C38: in the viewer of components/WikiRenderer.tsx, whenever the engine
\* is paused on the utterance of section i, the recorded speech state is
\* paused with active index i.
C38_PausedIsRecorded ==
    (/\ Mounted
     /\ synthPaused
     /\ synthQueue # <<>>
     /\ Head(synthQueue).started
     /\ Head(synthQueue).live)
        => ttsState = Paused(Head(synthQueue).index)

====
